---- MODULE Spec2Model ----
(***************************************************************************)
(* Model of the Pushover Open Client (go-poclient): the session state of   *)
(* Client, the message sync calls GetMessages / DeleteOldMessages, and the *)
(* notification stream ListenForNotifications / handleNotification /       *)
(* CloseWebsocket, together with the server's pending-message store, the   *)
(* consumer of the Messages channel and the caller's goroutines.           *)
(*                                                                         *)
(* A Message is represented by its RelativeID.  A websocket connection is  *)
(* represented by its position in the stack of running (recursive)         *)
(* ListenForNotifications calls.                                           *)
(***************************************************************************)
EXTENDS Integers, Sequences, FiniteSets, TLC

\* ---------------------------------------------------------------- bounds
\* Highest relative ID the server assigns in the stream specification.
MaxMsgs == 2
\* Number of 'R' reconnects (nested ListenForNotifications calls) of one run.
MaxDepth == 1
\* Number of acknowledge requests that fail without being applied.
MaxAckFails == 1
\* Messages of a burst beyond the capacity of the Messages channel.
Extra == 1
\* Longest batch, and highest relative ID, handed to DeleteOldMessages when
\* the high-water mark is checked on its own.
MarkLen == 3
MarkTop == 7

\* ------------------------------------------------------ program constants
\* make(chan Message, 32)
ChanCap == 32
\* len(name) > 25
MaxNameLen == 25
\* p.wsConn == nil
NilConn == 0
\* p.wsConn refers to a connection of a ListenForNotifications call that has
\* returned (its deferred conn.Close() has run).
StaleConn == -1

VARIABLES
    loggedIn,     \* Client.loggedIn
    registered,   \* Client.registered
    user,         \* Client.user: [ID, Secret]
    device,       \* Client.device.ID
    Messages,     \* Client.Messages: the buffered channel, as a sequence
    wsConn,       \* Client.wsConn: NilConn, StaleConn or an index into conns
    pc,           \* position of the ListenForNotifications goroutine
    conns,        \* conn of each running ListenForNotifications call: whether
                  \* it is open and the lines written on it,
                  \* outermost first: TRUE = open, FALSE = closed
    frame,        \* the binary frame handed to handleNotification
    messages,     \* handleNotification: the batch returned by GetMessages
    idx,          \* handleNotification: messages pushed so far (range loop)
    err,          \* value returned by the last ListenForNotifications call
    cpc,          \* position of the goroutine running CloseWebsocket
    pending,      \* server: relative IDs of the device's pending messages
    srvTop,       \* server: highest relative ID assigned so far
    op,           \* the API function the caller invoked last
    ret,          \* what that call returned
    arg,          \* the length of the name given to that call (0: no name)
    ev,           \* the network / channel operation the last step performed
    mark,         \* the high-water mark of the last acknowledge request
    acked,        \* the batch that request was computed from
    enq,          \* the messages pushed since the last successful fetch
    maxMark,      \* the highest mark sent before that request
    pushed,       \* relative IDs ever pushed onto Messages
    closedOpen,   \* a CloseWebsocket call closed an open connection during
                  \* the current ListenForNotifications run
    ackFails,     \* acknowledge requests lost so far
    res,          \* the error of handleNotification's last fetch or
                  \* acknowledge in the current ListenForNotifications run
    due           \* the messages fetched for '!' frames that the consumer has
                  \* not received yet, batch after batch in fetch order

vars == << loggedIn, registered, user, device, Messages, wsConn, pc, conns,
           frame, messages, idx, err, cpc, pending, srvTop, op, ret, arg,
           ev, mark, acked, enq, maxMark, pushed, closedOpen, ackFails,
           res, due >>

sessionVars == << loggedIn, registered, user, device >>
streamVars == << wsConn, pc, conns, frame, messages, idx, err >>
serverVars == << pending, srvTop >>
ghostVars == << mark, acked, enq, maxMark, pushed, closedOpen, ackFails,
               res >>

\* ------------------------------------------------------------ input sets
Secrets == {"s1", "s2"}
UserIDs == {"u1", "u2"}
DeviceIDs == {"d1", "d2"}
NameLens == {0, MaxNameLen, MaxNameLen + 1}
\* outcomes of an HTTP exchange: the request fails, the body does not decode,
\* the service reports a failure status, or the call succeeds
HttpOutcomes == {"ok", "transport", "malformed", "status"}

\* ------------------------------------------------------------- helpers
Range(s) == {s[k] : k \in 1..Len(s)}

RECURSIVE SortedSeq(_)
\* the server returns the pending messages in increasing relative ID
SortedSeq(S) ==
    IF S = {} THEN <<>>
    ELSE LET m == CHOOSE x \in S : \A y \in S : x <= y
         IN <<m>> \o SortedSeq(S \ {m})

HttpError(o) ==
    CASE o = "transport" -> "transport error"
      [] o = "malformed" -> "decode error"
      [] o = "status" -> "service error"

\* ---------------------------------------------------------------- New()
Init ==
    /\ loggedIn = FALSE
    /\ registered = FALSE
    /\ user = [ID |-> "", Secret |-> ""]
    /\ device = ""
    /\ Messages = <<>>
    /\ wsConn = NilConn
    /\ pc = "idle"
    /\ conns = <<>>
    /\ frame = ""
    /\ messages = <<>>
    /\ idx = 0
    /\ err = "none"
    /\ cpc = "idle"
    /\ pending = {}
    /\ srvTop = 0
    /\ op = "New"
    /\ ret = "nil"
    /\ arg = 0
    /\ ev = "none"
    /\ mark = 0
    /\ acked = <<>>
    /\ enq = <<>>
    /\ maxMark = 0
    /\ pushed = {}
    /\ closedOpen = FALSE
    /\ ackFails = 0
    /\ res = "nil"
    /\ due = <<>>

\* A call of the caller's own goroutine: it records the function, its result
\* and the network operation it performed.
CalledWith(f, a, r, e) == op' = f /\ arg' = a /\ ret' = r /\ ev' = e

Called(f, r, e) == CalledWith(f, 0, r, e)

\* The caller uses the session and sync functions while no stream is running.
CallerFree == pc = "idle" /\ cpc = "idle"

\* --------------------------------------------------------- session state
RestoreLogin(secret, userid) ==
    /\ CallerFree
    /\ user' = [ID |-> userid, Secret |-> secret]
    /\ loggedIn' = TRUE
    /\ Called("RestoreLogin", "nil", "none")
    /\ UNCHANGED << registered, device, Messages, streamVars, cpc, serverVars,
                    ghostVars, due >>

RestoreDevice(devid) ==
    /\ CallerFree
    /\ device' = devid
    /\ registered' = TRUE
    /\ Called("RestoreDevice", "nil", "none")
    /\ UNCHANGED << loggedIn, user, Messages, streamVars, cpc, serverVars,
                    ghostVars, due >>

\* Variant: RegisterDevice without the loggedIn check.
RegisterDeviceNoLoginCheck(nameLen, o, devid) ==
    /\ CallerFree
    /\ IF registered
         THEN CalledWith("RegisterDevice", nameLen, "Already registered", "none")
              /\ UNCHANGED << device, registered >>
       ELSE IF nameLen > MaxNameLen
         THEN CalledWith("RegisterDevice", nameLen, "Name is too long", "none")
              /\ UNCHANGED << device, registered >>
       ELSE IF o # "ok"
         THEN CalledWith("RegisterDevice", nameLen, HttpError(o), "POST devices")
              /\ UNCHANGED << device, registered >>
       ELSE /\ device' = devid
            /\ registered' = TRUE
            /\ CalledWith("RegisterDevice", nameLen, "nil", "POST devices")
    /\ UNCHANGED << loggedIn, user, Messages, streamVars, cpc, serverVars,
                    ghostVars, due >>

\* Variant: RegisterDevice without the check of the name's length.
RegisterDeviceNoNameCheck(nameLen, o, devid) ==
    /\ CallerFree
    /\ IF ~loggedIn
         THEN CalledWith("RegisterDevice", nameLen, "Not logged in", "none")
              /\ UNCHANGED << device, registered >>
       ELSE IF registered
         THEN CalledWith("RegisterDevice", nameLen, "Already registered", "none")
              /\ UNCHANGED << device, registered >>
       ELSE IF o # "ok"
         THEN CalledWith("RegisterDevice", nameLen, HttpError(o), "POST devices")
              /\ UNCHANGED << device, registered >>
       ELSE /\ device' = devid
            /\ registered' = TRUE
            /\ CalledWith("RegisterDevice", nameLen, "nil", "POST devices")
    /\ UNCHANGED << loggedIn, user, Messages, streamVars, cpc, serverVars,
                    ghostVars, due >>

RegisterDevice(nameLen, o, devid) ==
    /\ CallerFree
    /\ IF ~loggedIn
         THEN CalledWith("RegisterDevice", nameLen, "Not logged in", "none")
              /\ UNCHANGED << device, registered >>
       ELSE IF registered
         THEN CalledWith("RegisterDevice", nameLen, "Already registered", "none")
              /\ UNCHANGED << device, registered >>
       ELSE IF nameLen > MaxNameLen
         THEN CalledWith("RegisterDevice", nameLen, "Name is too long", "none")
              /\ UNCHANGED << device, registered >>
       ELSE IF o # "ok"
         THEN CalledWith("RegisterDevice", nameLen, HttpError(o), "POST devices")
              /\ UNCHANGED << device, registered >>
       ELSE /\ device' = devid
            /\ registered' = TRUE
            /\ CalledWith("RegisterDevice", nameLen, "nil", "POST devices")
    /\ UNCHANGED << loggedIn, user, Messages, streamVars, cpc, serverVars,
                    ghostVars, due >>

Login(o, secret, userid) ==
    /\ CallerFree
    /\ IF loggedIn
         THEN Called("Login", "Already logged in", "none")
              /\ UNCHANGED << loggedIn, registered, user >>
       ELSE IF o # "ok"
         THEN Called("Login", HttpError(o), "POST login")
              /\ UNCHANGED << loggedIn, registered, user >>
       ELSE /\ user' = [ID |-> userid, Secret |-> secret]
            /\ loggedIn' = TRUE
            /\ registered' = FALSE
            /\ Called("Login", "nil", "POST login")
    /\ UNCHANGED << device, Messages, streamVars, cpc, serverVars, ghostVars, due >>

\* ----------------------------------------------------------- message sync
\* GetMessages: what the call returns for the HTTP outcome o.
GetMessages(o) ==
    IF ~loggedIn THEN [msgs |-> <<>>, err |-> "Not logged in", ev |-> "none"]
    ELSE IF ~registered
      THEN [msgs |-> <<>>, err |-> "Device not registered", ev |-> "none"]
    ELSE IF o \in {"transport", "malformed"}
      THEN [msgs |-> <<>>, err |-> HttpError(o), ev |-> "GET messages"]
    ELSE IF o = "status"
      THEN [msgs |-> SortedSeq(pending),
            err |-> "Getting messages led to a status != 1",
            ev |-> "GET messages"]
    ELSE [msgs |-> SortedSeq(pending), err |-> "nil", ev |-> "GET messages"]

RECURSIVE HighestFrom(_, _)
\* the range loop of DeleteOldMessages, started with highestID = h
HighestFrom(msgs, h) ==
    IF msgs = <<>> THEN h
    ELSE HighestFrom(Tail(msgs), IF Head(msgs) > h THEN Head(msgs) ELSE h)

\* Variant: the mark is one past the highest relative ID of the batch.
HighestIDNext(msgs) == HighestFrom(msgs, 0) + 1

\* Variant: the loop compares the range index instead of msg.RelativeID.
HighestIndex(msgs) == IF msgs = <<>> THEN 0 ELSE Len(msgs) - 1

\* Variant: the loop assigns msg.RelativeID without comparing.
HighestLast(msgs) == IF msgs = <<>> THEN 0 ELSE msgs[Len(msgs)]

\* DeleteOldMessages: the high-water mark computed from the batch.
HighestID(msgs) == HighestFrom(msgs, 0)

\* The service marks every message up to the mark as read.
ServerDelete(m) == pending' = {x \in pending : x > m}

\* DeleteMessagesByID: the request carrying highestID, with HTTP outcome o.
\* "transport": the request does not reach the service; "malformed": the
\* service applies it and the reply does not decode; "status": the service
\* refuses it (status 0).
DeleteMessagesByID(highestID, o) ==
    /\ mark' = highestID
    /\ maxMark' = IF mark > maxMark THEN mark ELSE maxMark
    /\ IF o \in {"ok", "malformed"} THEN ServerDelete(highestID)
       ELSE UNCHANGED pending
    /\ UNCHANGED srvTop

DeleteOldMessages(msgs, o) ==
    /\ acked' = msgs
    /\ DeleteMessagesByID(HighestID(msgs), o)

\* The service accepts a request only from a logged-in, registered device.
Accepts(o) == o \in {"ok", "malformed"} => loggedIn /\ registered

\* The caller's own GetMessages call.
CallGetMessages(o) ==
    /\ CallerFree
    /\ Accepts(o)
    /\ LET r == GetMessages(o) IN Called("GetMessages", r.err, r.ev)
    /\ UNCHANGED << sessionVars, Messages, streamVars, cpc, serverVars,
                    ghostVars, due >>

\* The caller's own DeleteOldMessages call.
CallDeleteOldMessages(msgs, o) ==
    /\ CallerFree
    /\ Accepts(o)
    /\ DeleteOldMessages(msgs, o)
    /\ Called("DeleteOldMessages",
              IF o = "ok" THEN "nil" ELSE HttpError(o),
              "POST update_highest_message")
    /\ UNCHANGED << sessionVars, Messages, streamVars, cpc, enq, pushed,
                    closedOpen, ackFails, res, due >>

\* ------------------------------------------------------------ environment
\* The service stores k new messages under the next relative IDs.
ServerNewMessage(k, limit) ==
    /\ srvTop + k <= limit
    /\ srvTop' = srvTop + k
    /\ pending' = pending \cup (srvTop + 1 .. srvTop + k)
    /\ ev' = "env"
    /\ UNCHANGED << sessionVars, Messages, streamVars, cpc, op, ret, arg,
                    ghostVars, due >>

\* The consumer receives from the Messages channel.
Consume ==
    /\ Messages # <<>>
    /\ Messages' = Tail(Messages)
    /\ due' = Tail(due)
    /\ ev' = "env"
    /\ UNCHANGED << sessionVars, streamVars, cpc, serverVars, op, ret, arg,
                    ghostVars >>

\* ------------------------------------------------- notification stream
Types == {"binary", "text"}
Tokens == {"#", "!", "R", "E", "X"}

\* The connection of the innermost running ListenForNotifications call.
Top == Len(conns)

\* return err, through every nested call: each call's deferred conn.Close()
\* runs, and wsConn keeps referring to the connection it was given.
Return(e) ==
    /\ pc' = "idle"
    /\ err' = e
    /\ conns' = <<>>
    /\ wsConn' = IF wsConn = NilConn THEN NilConn ELSE StaleConn
    /\ frame' = ""
    /\ messages' = <<>>
    /\ idx' = 0

\* Variant: the entry checks loggedIn only.
EnterNoRegisteredCheck ==
    IF ~loggedIn THEN Return("Not logged in")
    ELSE /\ pc' = "dial"
         /\ err' = "running"
         /\ frame' = ""
         /\ UNCHANGED << conns, wsConn, messages, idx >>

\* Entry of ListenForNotifications: the two precondition checks.
Enter ==
    IF ~loggedIn THEN Return("Not logged in")
    ELSE IF ~registered THEN Return("Device not registered")
    ELSE /\ pc' = "dial"
         /\ err' = "running"
         /\ frame' = ""
         /\ UNCHANGED << conns, wsConn, messages, idx >>

\* The caller starts ListenForNotifications (in a goroutine).
Start ==
    /\ pc = "idle"
    /\ Enter
    /\ closedOpen' = FALSE
    /\ res' = "nil"
    /\ Called("ListenForNotifications", "running", "none")
    /\ UNCHANGED << sessionVars, Messages, cpc, serverVars, mark,
                    acked, enq, maxMark, pushed, ackFails, due >>

\* websocket.DefaultDialer.Dial, and on success p.wsConn = conn.
Dial(ok) ==
    /\ pc = "dial"
    /\ ev' = "dial"
    /\ IF ok
         THEN /\ conns' = Append(conns, [open |-> TRUE, written |-> <<>>])
              /\ wsConn' = Len(conns) + 1
              /\ pc' = "login"
              /\ UNCHANGED << frame, messages, idx, err >>
         ELSE Return("dial error")
    /\ UNCHANGED << sessionVars, Messages, cpc, serverVars, op, ret, arg,
                    ghostVars, due >>

\* fmt.Sprintf("login:%s:%s\n", p.device.ID, p.user.Secret), as its fields
LoginLine == << "login", device, user.Secret >>

\* Variant: the listener starts reading without writing the login line.
WriteLoginSkipped(ok) ==
    /\ pc = "login"
    /\ ok => conns[Top].open
    /\ ev' = "ws write"
    /\ IF ok
         THEN /\ pc' = "read"
              /\ UNCHANGED << wsConn, conns, frame, messages, idx, err >>
         ELSE Return("write error")
    /\ UNCHANGED << sessionVars, Messages, cpc, serverVars, op, ret, arg,
                    ghostVars, due >>

\* conn.WriteMessage of the login line; it fails on a closed connection.
WriteLogin(ok) ==
    /\ pc = "login"
    /\ ok => conns[Top].open
    /\ ev' = "ws write"
    /\ IF ok
         THEN /\ pc' = "read"
              /\ conns' = [conns EXCEPT
                             ![Top].written = Append(@, LoginLine)]
              /\ UNCHANGED << wsConn, frame, messages, idx, err >>
         ELSE Return("write error")
    /\ UNCHANGED << sessionVars, Messages, cpc, serverVars, op, ret, arg,
                    ghostVars, due >>

\* what a successful conn.ReadMessage shows as the last operation
ReadEvent(type) == IF type = "binary" THEN "ws read" ELSE "ws read other"

\* Variant: the message type is not looked at.
ReadFrameAnyType(type, tok) ==
    /\ pc = "read"
    /\ conns[Top].open
    /\ tok = "R" => Top <= MaxDepth
    /\ ev' = ReadEvent(type)
    /\ pc' = "handle" /\ frame' = tok
    /\ UNCHANGED << sessionVars, Messages, wsConn, conns, messages, idx, err,
                    cpc, serverVars, op, ret, arg,
                    ghostVars, due >>

\* conn.ReadMessage returns a frame; a frame that is not binary is skipped.
ReadFrame(type, tok) ==
    /\ pc = "read"
    /\ conns[Top].open
    /\ (type = "binary" /\ tok = "R") => Top <= MaxDepth
    /\ ev' = ReadEvent(type)
    /\ IF type = "binary"
         THEN pc' = "handle" /\ frame' = tok
         ELSE UNCHANGED << pc, frame >>
    /\ UNCHANGED << sessionVars, Messages, wsConn, conns, messages, idx, err,
                    cpc, serverVars, op, ret, arg,
                    ghostVars, due >>

\* Variant: a failed read dials again instead of returning.
ReadErrorRetry ==
    /\ pc = "read"
    /\ conns[Top].open
    /\ ev' = "ws read"
    /\ pc' = "dial"
    /\ UNCHANGED << sessionVars, Messages, wsConn, conns, frame, messages,
                    idx, err, cpc, serverVars, op, ret, arg,
                    ghostVars, due >>

\* conn.ReadMessage fails on an open connection: transport error or the
\* one-minute read deadline.
ReadError ==
    /\ pc = "read"
    /\ conns[Top].open
    /\ ev' = "ws read"
    /\ Return("read error")
    /\ UNCHANGED << sessionVars, Messages, cpc, serverVars, op, ret, arg,
                    ghostVars, due >>

\* conn.ReadMessage fails because the connection has been closed.
ReadClosed ==
    /\ pc = "read"
    /\ ~conns[Top].open
    /\ ev' = "ws read"
    /\ Return("read error")
    /\ UNCHANGED << sessionVars, Messages, cpc, serverVars, op, ret, arg,
                    ghostVars, due >>

\* Variant: the "#" case is missing, so the frame falls to the default case.
HandleKeepAliveAsDefault ==
    /\ pc = "handle" /\ frame = "#"
    /\ Return("Unexpected message received from API")
    /\ ev' = "none"
    /\ UNCHANGED << sessionVars, Messages, cpc, serverVars, op, ret, arg,
                    ghostVars, due >>

\* handleNotification, case "#"
HandleKeepAlive ==
    /\ pc = "handle" /\ frame = "#"
    /\ pc' = "read"
    /\ ev' = "none"
    /\ UNCHANGED << sessionVars, Messages, wsConn, conns, frame, messages,
                    idx, err, cpc, serverVars, op, ret, arg,
                    ghostVars, due >>

\* Variant: the loop leaves out the last message.
LoopDoneEarly(n, msgs) == n >= Len(msgs) - 1

\* for _, msg := range messages: the loop is over after n of msgs
LoopDone(n, msgs) == n = Len(msgs)

\* Variant: an empty batch is not acknowledged.
HandleNewMessageSkipEmpty(o) ==
    /\ pc = "handle" /\ frame = "!"
    /\ LET r == GetMessages(o) IN
         /\ ev' = r.ev
         /\ res' = r.err
         /\ IF r.err # "nil" THEN Return(r.err) /\ UNCHANGED << enq, due >>
            ELSE /\ messages' = r.msgs
                 /\ idx' = 0
                 /\ enq' = <<>>
                 /\ due' = due \o r.msgs
                 /\ pc' = IF r.msgs = <<>> THEN "read" ELSE "push"
                 /\ UNCHANGED << wsConn, conns, frame, err >>
    /\ UNCHANGED << sessionVars, Messages, cpc, serverVars, op, ret, arg, mark,
                    acked, maxMark, pushed, closedOpen, ackFails >>

\* Variant: messages that came with an error are delivered all the same.
HandleNewMessageIgnoreErr(o) ==
    /\ pc = "handle" /\ frame = "!"
    /\ LET r == GetMessages(o) IN
         /\ ev' = r.ev
         /\ res' = r.err
         /\ IF r.err # "nil" /\ r.msgs = <<>>
              THEN Return(r.err) /\ UNCHANGED << enq, due >>
            ELSE /\ messages' = r.msgs
                 /\ idx' = 0
                 /\ enq' = <<>>
                 /\ due' = due \o r.msgs
                 /\ pc' = IF LoopDone(0, r.msgs) THEN "ack" ELSE "push"
                 /\ UNCHANGED << wsConn, conns, frame, err >>
    /\ UNCHANGED << sessionVars, Messages, cpc, serverVars, op, ret, arg, mark,
                    acked, maxMark, pushed, closedOpen, ackFails >>

\* handleNotification, case "!": messages, err := p.GetMessages()
HandleNewMessage(o) ==
    /\ pc = "handle" /\ frame = "!"
    /\ LET r == GetMessages(o) IN
         /\ ev' = r.ev
         /\ res' = r.err
         /\ IF r.err # "nil" THEN Return(r.err) /\ UNCHANGED << enq, due >>
            ELSE /\ messages' = r.msgs
                 /\ idx' = 0
                 /\ enq' = <<>>
                 /\ due' = due \o r.msgs
                 /\ pc' = IF LoopDone(0, r.msgs) THEN "ack" ELSE "push"
                 /\ UNCHANGED << wsConn, conns, frame, err >>
    /\ UNCHANGED << sessionVars, Messages, cpc, serverVars, op, ret, arg, mark,
                    acked, maxMark, pushed, closedOpen, ackFails >>

\* Variant: the loop sends the batch from its last message to its first.
PushReversed ==
    /\ pc = "push"
    /\ Len(Messages) < ChanCap
    /\ Messages' = Append(Messages, messages[Len(messages) - idx])
    /\ pushed' = pushed \cup {messages[Len(messages) - idx]}
    /\ idx' = idx + 1
    /\ enq' = Append(enq, messages[Len(messages) - idx])
    /\ pc' = IF LoopDone(idx + 1, messages) THEN "ack" ELSE "push"
    /\ ev' = "chan send"
    /\ UNCHANGED << sessionVars, wsConn, conns, frame, messages, err, cpc,
                    serverVars, op, ret, arg, mark, acked, maxMark, closedOpen,
                    ackFails, res, due >>

\* Variant: the send does not wait for room in the channel.
PushNoBlock ==
    /\ pc = "push"
    /\ Messages' = Append(Messages, messages[idx + 1])
    /\ pushed' = pushed \cup {messages[idx + 1]}
    /\ idx' = idx + 1
    /\ enq' = Append(enq, messages[idx + 1])
    /\ pc' = IF LoopDone(idx + 1, messages) THEN "ack" ELSE "push"
    /\ ev' = "chan send"
    /\ UNCHANGED << sessionVars, wsConn, conns, frame, messages, err, cpc,
                    serverVars, op, ret, arg, mark, acked, maxMark, closedOpen,
                    ackFails, res, due >>

\* handleNotification, case "!": p.Messages <- msg, blocking while the
\* channel is full
Push ==
    /\ pc = "push"
    /\ Len(Messages) < ChanCap
    /\ Messages' = Append(Messages, messages[idx + 1])
    /\ pushed' = pushed \cup {messages[idx + 1]}
    /\ idx' = idx + 1
    /\ enq' = Append(enq, messages[idx + 1])
    /\ pc' = IF LoopDone(idx + 1, messages) THEN "ack" ELSE "push"
    /\ ev' = "chan send"
    /\ UNCHANGED << sessionVars, wsConn, conns, frame, messages, err, cpc,
                    serverVars, op, ret, arg, mark, acked, maxMark, closedOpen,
                    ackFails, res, due >>

\* handleNotification, case "!": return false, p.DeleteOldMessages(messages)
Ack(o) ==
    /\ pc = "ack"
    /\ o \in {"transport", "status"} => ackFails < MaxAckFails
    /\ ackFails' = IF o \in {"transport", "status"} THEN ackFails + 1
                   ELSE ackFails
    /\ DeleteOldMessages(messages, o)
    /\ ev' = "POST update_highest_message"
    /\ IF o = "ok"
         THEN /\ pc' = "read"
              /\ UNCHANGED << wsConn, conns, frame, messages, idx, err >>
         ELSE Return(HttpError(o))
    /\ res' = IF o = "ok" THEN "nil" ELSE HttpError(o)
    /\ UNCHANGED << sessionVars, Messages, cpc, op, ret, arg, enq, pushed,
                    closedOpen, due >>

\* Variant: after an "R" frame the call returns nil instead of calling itself.
HandleReloadReturnNil ==
    /\ pc = "handle" /\ frame = "R"
    /\ Return("nil")
    /\ ev' = "none"
    /\ UNCHANGED << sessionVars, Messages, cpc, serverVars, op, ret, arg,
                    ghostVars, due >>

\* handleNotification, case "R", and the recursive ListenForNotifications
\* call that follows: the calling frame's deferred conn.Close() waits for it.
HandleReload ==
    /\ pc = "handle" /\ frame = "R"
    /\ Enter
    /\ ev' = "none"
    /\ UNCHANGED << sessionVars, Messages, cpc, serverVars, op, ret, arg,
                    ghostVars, due >>

\* Variant: the "E" case is treated like the "R" case.
HandleErrorFrameAsReload ==
    /\ pc = "handle" /\ frame = "E"
    /\ Top <= MaxDepth
    /\ Enter
    /\ ev' = "none"
    /\ UNCHANGED << sessionVars, Messages, cpc, serverVars, op, ret, arg,
                    ghostVars, due >>

\* handleNotification, case "E"
HandleErrorFrame ==
    /\ pc = "handle" /\ frame = "E"
    /\ Return("Received error frame")
    /\ ev' = "none"
    /\ UNCHANGED << sessionVars, Messages, cpc, serverVars, op, ret, arg,
                    ghostVars, due >>

\* handleNotification, default case
HandleUnexpected ==
    /\ pc = "handle" /\ frame \notin {"#", "!", "R", "E"}
    /\ Return("Unexpected message received from API")
    /\ ev' = "none"
    /\ UNCHANGED << sessionVars, Messages, cpc, serverVars, op, ret, arg,
                    ghostVars, due >>

\* ---------------------------------------------------------- CloseWebsocket
\* if p.wsConn != nil
CloseCheck ==
    /\ cpc = "idle"
    /\ cpc' = IF wsConn # NilConn THEN "close" ELSE "idle"
    /\ ev' = "none"
    /\ UNCHANGED << sessionVars, Messages, streamVars, serverVars, op, ret, arg,
                    ghostVars, due >>

\* p.wsConn.Close()
CloseConn ==
    /\ cpc = "close"
    /\ cpc' = "clear"
    /\ ev' = "ws close"
    /\ IF wsConn \in 1..Len(conns)
         THEN /\ conns' = [conns EXCEPT ![wsConn].open = FALSE]
              /\ closedOpen' = (closedOpen \/ conns[wsConn].open)
         ELSE UNCHANGED << conns, closedOpen >>
    /\ UNCHANGED << sessionVars, Messages, wsConn, pc, frame, messages, idx,
                    err, serverVars, op, ret, arg, mark, acked, enq, maxMark,
                    pushed, ackFails, res, due >>

\* p.wsConn = nil
CloseClear ==
    /\ cpc = "clear"
    /\ cpc' = "idle"
    /\ wsConn' = NilConn
    /\ ev' = "none"
    /\ UNCHANGED << sessionVars, Messages, pc, conns, frame, messages, idx,
                    err, serverVars, op, ret, arg,
                    ghostVars, due >>

\* --------------------------------------------------------- specifications
\* The stream: one client whose caller restores or obtains one set of
\* credentials, runs ListenForNotifications, and may call CloseWebsocket.
Next ==
    \/ RestoreLogin("s1", "u1")
    \/ RestoreDevice("d1")
    \/ \E n \in {MaxNameLen} : \E o \in {"ok", "status"} :
         RegisterDevice(n, o, "d1")
    \/ \E o \in {"ok", "status"} : Login(o, "s1", "u1")
    \/ Start
    \/ \E ok \in BOOLEAN : Dial(ok)
    \/ \E ok \in BOOLEAN : WriteLogin(ok)
    \/ \E t \in Types : \E tok \in Tokens : ReadFrame(t, tok)
    \/ ReadError
    \/ ReadClosed
    \/ HandleKeepAlive
    \/ \E o \in HttpOutcomes : HandleNewMessage(o)
    \/ Push
    \/ \E o \in HttpOutcomes : Ack(o)
    \/ HandleReload
    \/ HandleErrorFrame
    \/ HandleUnexpected
    \/ CloseCheck
    \/ CloseConn
    \/ CloseClear
    \/ ServerNewMessage(1, MaxMsgs)
    \/ Consume

Spec == Init /\ [][Next]_vars

\* The session and sync functions called directly, with every outcome.
MsgSeqs == {<<>>} \cup {<<a>> : a \in 1..MaxMsgs}
             \cup {<<a, b>> : a \in 1..MaxMsgs, b \in 1..MaxMsgs}

NextSession ==
    \/ \E sec \in Secrets : \E u \in UserIDs : RestoreLogin(sec, u)
    \/ \E d \in DeviceIDs : RestoreDevice(d)
    \/ \E n \in NameLens : \E o \in HttpOutcomes : \E d \in DeviceIDs :
         RegisterDevice(n, o, d)
    \/ \E o \in HttpOutcomes : \E sec \in Secrets : \E u \in UserIDs :
         Login(o, sec, u)
    \/ \E o \in HttpOutcomes : CallGetMessages(o)
    \/ \E msgs \in MsgSeqs : \E o \in HttpOutcomes :
         CallDeleteOldMessages(msgs, o)
    \/ ServerNewMessage(1, MaxMsgs)

SpecSession == Init /\ [][NextSession]_vars

\* The stream under load: the service receives a burst of more messages than
\* the Messages channel holds, and the consumer drains the channel at its own
\* pace.  The listener goroutine runs whenever its send is possible, and the
\* consumer keeps receiving.
Burst == ChanCap + Extra

NextQueue ==
    \/ RestoreLogin("s1", "u1")
    \/ RestoreDevice("d1")
    \/ Start
    \/ \E ok \in BOOLEAN : Dial(ok)
    \/ \E ok \in BOOLEAN : WriteLogin(ok)
    \/ \E tok \in {"#", "!"} : ReadFrame("binary", tok)
    \/ ReadError
    \/ HandleKeepAlive
    \/ \E o \in {"ok", "transport"} : HandleNewMessage(o)
    \/ Push
    \/ \E o \in HttpOutcomes : Ack(o)
    \/ ServerNewMessage(Burst, Burst)
    \/ Consume

SpecQueue ==
    Init /\ [][NextQueue]_vars /\ WF_vars(Push) /\ WF_vars(Consume)

\* The high-water mark on its own: a restored client whose caller hands one
\* batch, of any content and order, to DeleteOldMessages.
MarkSeqs == UNION {[1..n -> 1..MarkTop] : n \in 0..MarkLen}

NextMark ==
    \/ RestoreLogin("s1", "u1")
    \/ RestoreDevice("d1")
    \/ /\ acked = <<>>
       /\ \E msgs \in MarkSeqs : \E o \in HttpOutcomes :
            CallDeleteOldMessages(msgs, o)

SpecMark == Init /\ [][NextMark]_vars

\* ------------------------------------------------------------ properties
\* the last step was a call of f by the caller
LastCall(f) == op = f /\ ev # "env"

AckRequest == "POST update_highest_message"

\* the last step was the acknowledge request of handleNotification
StreamAcked == op = "ListenForNotifications" /\ ev = AckRequest

\* C1: when handleNotification issues the acknowledge request for a fetched
\* batch, every message of that batch has already been pushed onto Messages:
\* the request is reached only with the whole batch sent, and the batch it
\* names is exactly what was pushed since the fetch.
C1_PushedBeforeAck ==
    /\ pc = "ack" => idx = Len(messages) /\ enq = messages
    /\ StreamAcked => enq = acked

C1_Witness == StreamAcked /\ Len(acked) = 2 /\ pc = "read"

\* relative IDs the service has deleted
Deleted == (1..srvTop) \ pending

\* the acknowledge request of the stream failed without being applied
AckLost ==
    /\ StreamAcked
    /\ pc = "idle"
    /\ err \in {HttpError("transport"), HttpError("status")}

\* C2: at-least-once delivery.  The service has deleted no message that was
\* not pushed onto Messages before; a fetched batch stays pending until it is
\* acknowledged; and after an acknowledge that failed without being applied
\* the batch is still pending, so that the next fetch returns it again.
C2_AtLeastOnce ==
    /\ Deleted \subseteq pushed
    /\ pc \in {"push", "ack"} => Range(messages) \subseteq pending
    /\ AckLost => /\ Range(acked) \subseteq pending
                  /\ Range(acked) \subseteq Range(GetMessages("ok").msgs)

\* a message was delivered twice and messages have been deleted
C2_Witness ==
    /\ Deleted # {}
    /\ \E i \in 1..Len(Messages) : \E j \in 1..Len(Messages) :
         i < j /\ Messages[i] = Messages[j]

OpenConns == {k \in 1..Len(conns) : conns[k].open}

\* C6 as stated: the connection is closed before the new connection attempt
\* begins, so the controller never holds more than one open connection.
C6_AtMostOneOpen == Cardinality(OpenConns) <= 1

\* C7 as stated: once a CloseWebsocket call made during a run has closed a
\* connection, the listener is not (and does not stay) in the listening state
\* on an open connection.
C7_CloseStopsListener == closedOpen => ~(pc = "read" /\ conns[Top].open)

\* the listener took a step out of handleNotification for an E or unknown frame
FatalFrameStep == pc = "handle" /\ frame \in {"E", "X"} /\ pc' # pc

\* C8: an 'E' frame or a frame with an unknown token makes
\* ListenForNotifications return, with no fetch, acknowledge, push or
\* connection attempt; the error of 'E' differs from the error of the unknown
\* token, and both differ from the transport errors.
C8_FatalFrames ==
    [][FatalFrameStep =>
         /\ pc' = "idle"
         /\ err' = IF frame = "E" THEN "Received error frame"
                   ELSE "Unexpected message received from API"
         /\ err' \notin {"read error", "dial error", "write error"}
         /\ ev' = "none"
         /\ UNCHANGED << Messages, pending, mark, acked, maxMark, pushed >>
      ]_vars

C8_Witness == pc = "idle" /\ err = "Received error frame"

StreamEvents == {"dial", "GET messages", AckRequest, "chan send", "ws write",
                 "ws read", "ws read other"}

\* C9: a terminated ListenForNotifications call performs no connection
\* attempt, fetch, acknowledge or push until the caller calls it again; and a
\* connection attempt is made only at the start of a call by the caller or
\* directly after an 'R' frame.
C9_NoAutoRestart ==
    [][/\ pc = "idle" => ev' \notin StreamEvents
       /\ (pc = "idle" /\ pc' # "idle") =>
             (pc' = "dial" /\ op' = "ListenForNotifications")
       /\ ev' = "dial" => pc = "dial"
       /\ (pc' = "dial" /\ pc # "dial") =>
             (pc = "idle" \/ (pc = "handle" /\ frame = "R"))
      ]_vars

C9_Witness == pc = "idle" /\ err = "read error" /\ ev = "ws read"

\* C4 as stated: GetMessages and DeleteOldMessages, called on a client that
\* is not logged in or not registered, return the precondition error and make
\* no network call.
C4_SyncPreconditions ==
    ((LastCall("GetMessages") \/ LastCall("DeleteOldMessages"))
       /\ ~(loggedIn /\ registered))
    => /\ ev = "none"
       /\ ret = IF ~loggedIn THEN "Not logged in" ELSE "Device not registered"

\* C5 as stated: registered implies loggedIn in every reachable state.
C5_RegisteredImpliesLoggedIn == registered => loggedIn

\* C5 amended: every Login, RegisterDevice and RestoreLogin call, and every
\* RestoreDevice call on a logged-in client, preserves "registered implies
\* loggedIn"; only RestoreDevice on a client that is not logged in breaks it.
C5_OnlyRestoreDeviceBreaks ==
    [][\/ (LastCall("RestoreDevice"))' /\ ~loggedIn
       \/ (registered => loggedIn) => (registered' => loggedIn')
      ]_vars

C5_Witness ==
    LastCall("RegisterDevice") /\ ret = "nil" /\ registered /\ loggedIn

Full == Len(Messages) = ChanCap

\* C10: Messages never holds more than 32 messages; while it is full the
\* listener stays in its send, reads no frame and sends no acknowledge, and
\* only the consumer changes the channel; no fetched message is dropped or
\* sent twice: what has been pushed is the batch up to the loop position,
\* the acknowledge is reached with the whole batch pushed, and with a consumer
\* that keeps receiving every batch is pushed completely.
C10_Backpressure ==
    /\ [](Len(Messages) <= ChanCap)
    /\ [][(pc = "push" /\ Full) =>
            /\ pc' = "push" /\ idx' = idx /\ enq' = enq
            /\ ev' \notin StreamEvents
            /\ Messages' \in {Messages, Tail(Messages)}
         ]_vars
    /\ [](pc = "push" => idx < Len(messages) /\ enq = SubSeq(messages, 1, idx))
    /\ [](pc = "ack" => enq = messages)
    /\ (pc = "push") ~> (pc = "ack")

C10_Witness == pc = "push" /\ Full /\ idx = ChanCap


\* C12: ListenForNotifications on a client that is not logged in or not
\* registered returns at once, with "Not logged in" checked before "Device not
\* registered"; no stream runs for such a client, and the call dials nothing,
\* writes nothing and performs no fetch, acknowledge or push.
C12_StartPreconditions ==
    ~(loggedIn /\ registered) =>
        /\ pc = "idle"
        /\ conns = <<>>
        /\ op = "ListenForNotifications" =>
             /\ err = IF ~loggedIn THEN "Not logged in"
                      ELSE "Device not registered"
             /\ ev \notin StreamEvents

C12_Witness ==
    /\ LastCall("ListenForNotifications")
    /\ loggedIn /\ ~registered
    /\ err = "Device not registered"


\* the listener leaves handleNotification's switch for a frame with token t
Handled(t) == pc = "handle" /\ frame = t /\ pc' # pc

\* C14: a fetch is made only for a '!' frame, and each '!' frame makes one;
\* a successful fetch is followed, after the pushes, by one acknowledge whose
\* argument is the batch that was fetched, the empty batch included; no
\* acknowledge is sent otherwise.
C14_OneSyncPerFrame ==
    [][/\ ev' = "GET messages" => pc = "handle" /\ frame = "!"
       /\ Handled("!") =>
            /\ ev' = "GET messages"
            /\ pc' \in {"push", "ack", "idle"}
            /\ pc' # "idle" => /\ messages' = SortedSeq(pending)
                               /\ (pc' = "ack") = (messages' = <<>>)
       /\ (pc \in {"push", "ack"} /\ pc' \in {"push", "ack"}) =>
            messages' = messages
       /\ pc = "push" => pc' \in {"push", "ack"}
       /\ ev' = AckRequest => pc = "ack" /\ acked' = messages
       /\ (pc = "ack" /\ pc' # pc) =>
            ev' = AckRequest /\ pc' \in {"read", "idle"}
      ]_vars

C14_Witness == StreamAcked /\ acked = <<>> /\ pc = "read" /\ pending # {}

\* C15: a '#' frame makes no fetch and no acknowledge and pushes nothing; the
\* listener goes back to reading on the same connection, and the session, the
\* connections, wsConn and the channel are unchanged.
C15_KeepAlive ==
    [][Handled("#") =>
         /\ pc' = "read"
         /\ ev' = "none"
         /\ UNCHANGED << sessionVars, Messages, conns, wsConn, err, pending,
                         srvTop, mark, acked, enq, maxMark, pushed >>
      ]_vars

C15_Witness == pc = "read" /\ frame = "#" /\ ev = "none"

\* C20 as stated: while the listener is reading on an open connection, wsConn
\* refers to that connection; and wsConn never refers to a connection that
\* has been replaced, nor to a closed one while a newer connection exists.
C20_WsConnTracksConnection ==
    /\ (pc = "read" /\ Top \in OpenConns) => wsConn = Top
    /\ wsConn \in 1..Len(conns) => wsConn = Top
    /\ wsConn = StaleConn => conns = <<>>


\* the largest element of a set of relative IDs, 0 for the empty set
MaxOf(S) == IF S = {} THEN 0 ELSE CHOOSE x \in S : \A y \in S : y <= x

\* C13: the mark DeleteOldMessages sends is the maximum RelativeID of the
\* batch, whatever the order of its messages, and 0 for the empty batch; for
\* the batch 3, 7, 5 it is 7.
C13_MarkIsMaximum ==
    /\ mark = MaxOf(Range(acked))
    /\ acked = <<3, 7, 5>> => mark = 7

C13_Witness ==
    LastCall("DeleteOldMessages") /\ acked = <<3, 7, 5>> /\ mark = 7


\* C16: a frame that is not binary, whatever its payload, is ignored: the
\* listener stays in its read on the same connection, and nothing is fetched,
\* acknowledged, pushed, dialled or returned.
C16_NonBinaryIgnored ==
    [][ev' = "ws read other" =>
         /\ pc = "read" /\ pc' = "read"
         /\ UNCHANGED << sessionVars, Messages, wsConn, conns, frame, messages,
                         idx, err, cpc, serverVars, op, ret, arg,
                    ghostVars, due >>
      ]_vars

C16_Witness == pc = "read" /\ ev = "ws read other"


\* the connections on which the login step of their call is over
LoggedOn == {k \in 1..Len(conns) : k < Top \/ pc # "login"}

\* C17: on every connection of ListenForNotifications, the first and each one
\* opened after an 'R' frame, exactly the line login:<deviceID>:<secret> has
\* been written once the listener reads, and nothing before the login step;
\* the only write is the one of the login step, no frame is read before it,
\* and when it fails the call returns the write error without a read.
C17_OneLoginLine ==
    /\ [](\A k \in 1..Len(conns) :
            conns[k].written = IF k \in LoggedOn
                                 THEN << << "login", device, user.Secret >> >>
                                 ELSE << >>)
    /\ [][/\ ev' = "ws write" =>
               /\ pc = "login"
               /\ \/ pc' = "read" /\ Len(conns') = Len(conns)
                  \/ pc' = "idle" /\ err' = "write error"
          /\ ev' \in {"ws read", "ws read other"} =>
               pc = "read" /\ Top \in LoggedOn
          /\ pc' = "read" => pc \in {"login", "read", "handle", "ack"}
         ]_vars

C17_Witness ==
    /\ pc = "read" /\ Len(conns) = 2 /\ ev \in {"ws read", "ws read other"}
    /\ \A k \in 1..2 : conns[k].written = << << "login", "d1", "s1" >> >>


\* C18: Login on a logged-in client, and RegisterDevice on a client that is
\* not logged in, is already registered, or is given a name of more than 25
\* characters, return their precondition error without a network operation
\* and leave loggedIn, registered, the credentials and the device ID as
\* they were.
C18_LocalPreconditionFailures ==
    [][/\ (LastCall("Login"))' /\ loggedIn =>
            /\ ret' = "Already logged in"
            /\ ev' = "none"
            /\ UNCHANGED sessionVars
       /\ (LastCall("RegisterDevice"))'
            /\ (~loggedIn \/ registered \/ arg' > 25) =>
            /\ ret' = IF ~loggedIn THEN "Not logged in"
                      ELSE IF registered THEN "Already registered"
                      ELSE "Name is too long"
            /\ ev' = "none"
            /\ UNCHANGED sessionVars
      ]_vars

C18_Witness ==
    /\ LastCall("RegisterDevice") /\ arg = 26 /\ ret = "Name is too long"
    /\ loggedIn /\ ~registered /\ ev = "none"


\* the listener's step is the fetch of a '!' frame, or the acknowledge
FetchStep == pc = "handle" /\ frame = "!" /\ pc' # pc
AckStep == pc = "ack" /\ pc' # pc

\* C19: when the fetch of a '!' frame fails, also when messages came back
\* with the error, nothing is pushed, no acknowledge request is made, the
\* service keeps its pending messages, and ListenForNotifications returns
\* that error with no connection dialled; when the acknowledge fails, the
\* channel keeps the messages it holds and the call returns that error.
C19_FetchAndAckFailures ==
    [][/\ (FetchStep /\ res' # "nil") =>
            /\ pc' = "idle" /\ err' = res' /\ conns' = << >>
            /\ ev' \in {"GET messages", "none"}
            /\ UNCHANGED << Messages, pushed, enq, mark, acked, maxMark,
                            serverVars >>
       /\ (AckStep /\ res' # "nil") =>
            /\ pc' = "idle" /\ err' = res' /\ conns' = << >>
            /\ UNCHANGED << Messages, pushed, enq >>
       /\ (pc = "idle" /\ res # "nil" /\ pc' # "idle") =>
            (LastCall("ListenForNotifications"))' /\ ev' = "none"
                /\ res' = "nil"
      ]_vars

\* the fetch failed with a status != 1 while messages were pending, so that
\* messages came back with the error
C19_Witness ==
    /\ pc = "idle" /\ ev = "GET messages" /\ pending # {}
    /\ res = "Getting messages led to a status != 1" /\ err = res


\* the part of the batch the push loop has not sent yet
Unsent == IF pc = "push" THEN SubSeq(messages, idx + 1, Len(messages))
          ELSE << >>

\* C11: what the consumer has still to receive is, in this order, the
\* fetched batches in the order of their '!' frames, each batch in the order
\* of the fetch: the channel holds the front of it and only the rest of the
\* batch being pushed is missing; a send appends the next message of the
\* batch, and the consumer takes the message that is due first; this holds
\* on every connection, the ones dialled after 'R' included.
C11_DeliveryOrder ==
    /\ [](due = Messages \o Unsent)
    /\ [][/\ ev' = "chan send" =>
               Messages' = Append(Messages, Head(Unsent))
          /\ Len(Messages') < Len(Messages) =>
               Head(Messages) = Head(due) /\ Messages' = Tail(Messages)
         ]_vars

\* on the connection dialled after an 'R' frame the second batch has been
\* pushed behind the first, and the consumer has received the first
C11_Witness ==
    /\ Len(conns) = 2 /\ pc = "ack" /\ acked = << 1 >> /\ messages = << 2 >>
    /\ Messages = << 2 >> /\ due = << 2 >> /\ ev = "env"


\* the errors ListenForNotifications returns
ListenErrors ==
    {"Not logged in", "Device not registered", "dial error", "write error",
     "read error", "transport error", "decode error", "service error",
     "Getting messages led to a status != 1", "Received error frame",
     "Unexpected message received from API"}

\* the step is the return of a running ListenForNotifications call
ReturnStep == pc # "idle" /\ pc' = "idle"

\* what makes the read loop return: a failed read, a failed fetch or
\* acknowledge for a '!' frame, an 'E' frame, a frame with an unknown token
LoopFailure ==
    \/ pc = "read" /\ ev' = "ws read" /\ err' = "read error"
    \/ FetchStep /\ res' # "nil" /\ err' = res'
    \/ AckStep /\ res' # "nil" /\ err' = res'
    \/ pc = "handle" /\ frame = "E" /\ err' = "Received error frame"
    \/ pc = "handle" /\ frame \notin {"#", "!", "R", "E"}
         /\ err' = "Unexpected message received from API"

\* what makes a connection attempt return: the dial or the login write fails
ConnectFailure ==
    \/ pc = "dial" /\ ev' = "dial" /\ err' = "dial error"
    \/ pc = "login" /\ ev' = "ws write" /\ err' = "write error"

\* C21 as stated: a call that has logged on to its first connection returns
\* only when a read fails, the sync of a '!' frame fails, or an 'E' frame or
\* a frame with an unknown token arrives.
C21_ReturnsOnlyOnReadOrFrame ==
    [][(ReturnStep /\ 1 \in LoggedOn) => LoopFailure]_vars

\* C21 amended: ListenForNotifications never returns nil: once it has been
\* called, its result is one of its errors whenever it is not running; a
\* call that fails its precondition returns that error; and a running call
\* returns only when a read fails, the sync of a '!' frame fails, an 'E'
\* frame or a frame with an unknown token arrives, or the dial or the login
\* write fails, which also happens on the reconnect after an 'R' frame.
C21_NeverReturnsSuccess ==
    /\ [](/\ err \in ListenErrors \cup {"none", "running"}
          /\ err = "running" <=> pc # "idle")
    /\ [][/\ err' = "none" => err = "none"
          /\ (pc = "idle" /\ pc' = "idle" /\ err' # err) =>
               /\ (LastCall("ListenForNotifications"))' /\ ev' = "none"
               /\ err' = IF ~loggedIn THEN "Not logged in"
                         ELSE "Device not registered"
               /\ ~(loggedIn /\ registered)
          /\ ReturnStep => (LoopFailure \/ ConnectFailure)
          /\ (ReturnStep /\ 1 \in LoggedOn /\ ~LoopFailure) =>
               (ConnectFailure /\ Top >= 1 /\ (pc = "dial" => Top \in LoggedOn))
         ]_vars

\* the call is still running on the connection dialled after an 'R' frame,
\* after the sync of a '!' frame has succeeded there
C21_Witness ==
    /\ pc = "read" /\ err = "running" /\ Len(conns) = 2
    /\ ev = AckRequest /\ res = "nil" /\ acked # << >>

====
